---- MODULE Spec2Model ----
(***************************************************************************)
(* TalentParse (app.py): text extraction with an mtime-keyed cache, and    *)
(* the index POST run that fans documents out to a thread pool, collects   *)
(* the results in completion order, filters, sorts and stores them.        *)
(*                                                                         *)
(* Text is a sequence of one-character strings over Chars; "CR" and "LF"   *)
(* stand for '\r' and '\n'.  A file's body is the character stream its     *)
(* format extractor sees.  The md5 of "path:mtime" is modelled by the pair *)
(* <<document, mtime>> (md5 collisions are not modelled).  The host is     *)
(* POSIX: os.linesep is "\n".                                              *)
(*                                                                         *)
(* Spec is one index POST request on a freshly imported module (empty      *)
(* folders), followed by downloads; its steps are the blocking points of   *)
(* index and process_one.  SpecExtract is extract_text called again and    *)
(* again on one document that is saved anew in between.  In both, at most  *)
(* MaxFaults file operations fail.                                         *)
(***************************************************************************)
EXTENDS Integers, Sequences, FiniteSets, TLC

\* ------------------------------------------------------------------ bounds
NumDocs == 2          \* paths that can exist in CV_FOLDER
MaxScore == 1         \* numeric scores the judge returns are 0..MaxScore
MaxTime == 2          \* mtimes are 0..MaxTime
CpuCount == 1         \* os.cpu_count() of the host
MaxFaults == 1        \* failures of file operations in one behaviour

Docs == 1..NumDocs
Times == 0..MaxTime

Min(a, b) == IF a <= b THEN a ELSE b

\* app.py:39  MAX_WORKERS = min(8, os.cpu_count() or 4)
MAX_WORKERS == Min(8, IF CpuCount = 0 THEN 4 ELSE CpuCount)

\* ------------------------------------------------------------------- text
Chars == {"a", " ", "CR", "LF"}
Whitespace == {" ", "CR", "LF"}

\* The bodies documents are written with: whitespace only, plain, and one
\* holding a carriage return.
Bodies == {<<" ">>, <<"a">>, <<"a", "CR", "a">>}

\* Uploaded bodies: the run reads a text only for being empty after strip.
UploadBodies == {<<" ">>, <<"a">>}

RECURSIVE lstrip(_)
lstrip(t) ==
    IF t = <<>> THEN <<>>
    ELSE IF Head(t) \in Whitespace THEN lstrip(Tail(t)) ELSE t

RECURSIVE rstrip(_)
rstrip(t) ==
    IF t = <<>> THEN <<>>
    ELSE IF t[Len(t)] \in Whitespace THEN rstrip(SubSeq(t, 1, Len(t) - 1)) ELSE t

\* str.strip()
strip(t) == rstrip(lstrip(t))

\* Reading in text mode with newline=None: "\r\n" and "\r" become "\n".
RECURSIVE UniversalNewlines(_)
UniversalNewlines(t) ==
    IF t = <<>> THEN <<>>
    ELSE IF Head(t) = "CR"
         THEN IF Len(t) >= 2 /\ t[2] = "LF"
              THEN <<"LF">> \o UniversalNewlines(Tail(Tail(t)))
              ELSE <<"LF">> \o UniversalNewlines(Tail(t))
         ELSE <<Head(t)>> \o UniversalNewlines(Tail(t))

\* Path.read_text(encoding="utf-8", errors="ignore") of stored characters.
read_text(data) == UniversalNewlines(data)

\* Path.write_text(text, encoding="utf-8") on POSIX: "\n" is written as
\* os.linesep = "\n", every other character as it is.
write_text(text) == text

\* ------------------------------------------------------------- extensions
\* The suffix of each path; ".png" is not a recognized extension.
SuffixOf(d) ==
    CASE d % 4 = 1 -> ".pdf"
      [] d % 4 = 2 -> ".txt"
      [] d % 4 = 3 -> ".docx"
      [] OTHER -> ".png"

Recognized == {".pdf", ".docx", ".txt"}

VARIABLES
    disk,            \* CV_FOLDER: d -> [present, body, mtime]
    cache,           \* CACHE_DIR: <<d, mtime>> -> [exists, data]
    faults,          \* failures of file operations so far
    pc,              \* the index POST request: idle, pool, returned, raised
    scan,            \* the list `files` of the request, in discovery order
    task,            \* d -> the future of process_one(d, job_json)
    results,         \* the list `results` of the request
    latest_results,  \* the global latest_results
    csv,             \* results.csv as written by download_csv
    calls,           \* d -> what extract_text returned for the current mtime
    pdf,             \* one call of extract_text_pdf: the document, what failed, the outcome
    cvcall,          \* one call of parse_cv: the text, the judge's reply, the record
    found,           \* the documents of the scan whose file held text at the scan
    other            \* a second index POST request on another thread

vars ==
    <<disk, cache, faults, pc, scan, task, results, latest_results, csv, calls, pdf, cvcall, found, other>>

fsVars == <<disk, cache, faults>>
runVars == <<pc, scan, task, results, latest_results, csv>>

\* ------------------------------------------------------------- extraction
\* The key taken from the path alone.
cache_path_ignoring_mtime(d) == <<d, 0>>

\* app.py:44-47.  The key is md5("<resolved path>:<st_mtime>"), taken from the
\* file's mtime on disk at the time of the call.
_cache_path(d) == <<d, disk[d].mtime>>

\* app.py:49-81.  The text parts of the document joined, then stripped.
extract_text_pdf(body) == strip(body)

\* app.py:83-88.  The paragraphs joined, then stripped.
extract_text_docx(body) == strip(body)

\* app.py:90-94.  read_text(errors="ignore") never fails on the bytes; a read
\* fails only when the operating system refuses it.  The second read is not
\* guarded: when it fails too the exception leaves the function.
extract_text_plain(body) ==
    LET reads == {[ok |-> TRUE, text |-> read_text(body)],
                  [ok |-> FALSE, text |-> <<>>]}
    IN  {[raised |-> FALSE, text |-> r1.text] : r1 \in {r \in reads : r.ok}}
        \cup
        UNION {{[raised |-> ~r2.ok, text |-> r2.text] : r2 \in reads}
               : r1 \in {r \in reads : ~r.ok}}

\* app.py:101-109.  The dispatch on the suffix.
extract_by_suffix(d) ==
    LET ext == SuffixOf(d)
        body == disk[d].body
    IN  CASE ext = ".pdf" -> {[raised |-> FALSE, text |-> extract_text_pdf(body)]}
          [] ext = ".docx" -> {[raised |-> FALSE, text |-> extract_text_docx(body)]}
          [] ext = ".txt" -> extract_text_plain(body)
          [] OTHER -> {[raised |-> FALSE, text |-> <<>>]}

\* app.py:111-114.  cp.write_text(text): it stores the text, or it fails and is
\* ignored.  A failed write leaves no file (the open failed) or an empty file
\* (the open truncated it and the write failed).  `at` records the mtime of the
\* file the text was extracted from.
cache_write(c, key, text) ==
    {[how |-> "stored",
      cache |-> [c EXCEPT ![key] = [exists |-> TRUE, data |-> write_text(text),
                                    at |-> disk[key[1]].mtime]]],
     [how |-> "failed", cache |-> c],
     [how |-> "truncated",
      cache |-> [c EXCEPT ![key] = [exists |-> TRUE, data |-> <<>>,
                                    at |-> disk[key[1]].mtime]]]}

\* app.py:96-115.  The outcomes of extract_text(d): the exception or the text
\* returned, how it came about (a cache hit, or an extraction and what became
\* of the cache write), the mtime of the file the text was extracted from, and
\* the cache afterwards.
extract_text(d) ==
    IF ~disk[d].present
    THEN {[raised |-> TRUE, text |-> <<>>, how |-> "stat", at |-> 0, cache |-> cache]}
    ELSE LET cp == _cache_path(d)
         IN  IF cache[cp].exists
             THEN {[raised |-> FALSE, text |-> read_text(cache[cp].data),
                    how |-> "hit", at |-> cache[cp].at, cache |-> cache]}
             ELSE UNION {
                    IF x.raised
                    THEN {[raised |-> TRUE, text |-> <<>>, how |-> "unreadable",
                           at |-> disk[d].mtime, cache |-> cache]}
                    ELSE {[raised |-> FALSE, text |-> x.text, how |-> w.how,
                           at |-> disk[d].mtime, cache |-> w.cache] : w \in cache_write(cache, cp, x.text)}
                    : x \in extract_by_suffix(d)}

\* ------------------------------------------------------ the external judge
\* A JSON value under the key "score": absent, a number, or not a number.
NoScore == [kind |-> "missing", val |-> 0]
Num(n) == [kind |-> "num", val |-> n]
NotANumber == [kind |-> "str", val |-> 0]

\* The e-mail addresses: two that CV texts hold, one that only the judge gives.
Emails == {"h1@x", "h2@x", "j@x"}

\* The JSON objects the judge answers with: whether they hold the key "error",
\* what they hold under "score", "matching_points" and "email" ("" stands for
\* every value `not data.get("email")` is true of: no key, null, "").
EmptyObj == [error |-> FALSE, score |-> NoScore, points |-> <<>>, email |-> ""]
ScoreObjs ==
    {[EmptyObj EXCEPT !.score = Num(n), !.points = <<"p">>] : n \in 0..MaxScore}
    \cup {[EmptyObj EXCEPT !.score = NotANumber, !.points = <<"p">>],
          EmptyObj}
CvObjs ==
    {EmptyObj, [EmptyObj EXCEPT !.error = TRUE]}
\* The candidate objects of a call of parse_cv taken alone: without an
\* address, with one no text holds, with one a text holds.
MailObjs ==
    {EmptyObj, [EmptyObj EXCEPT !.email = "j@x"], [EmptyObj EXCEPT !.email = "h2@x"]}

\* A response text is a sequence of tokens: prose, "{", "}", or the members of
\* one JSON object.
Prose == [t |-> "prose", v |-> EmptyObj]
Open == [t |-> "{", v |-> EmptyObj]
Close == [t |-> "}", v |-> EmptyObj]
Members(o) == [t |-> "members", v |-> o]

\* ollama.chat raises, or returns one of these texts.
Texts(objs) ==
    {<<Prose>>, <<Close, Prose, Open>>, <<Open, Close>>, <<Open, Prose, Close>>}
    \cup {<<Prose, Open, Members(o), Close, Prose>> : o \in objs}
Replies(objs) ==
    {[raised |-> TRUE, txt |-> <<>>]}
    \cup {[raised |-> FALSE, txt |-> x] : x \in Texts(objs)}

\* txt.find("{"): the first index of the token, 0 when there is none.
find(txt, tok) ==
    LET at == {i \in 1..Len(txt) : txt[i] = tok}
    IN  IF at = {} THEN 0 ELSE CHOOSE i \in at : \A j \in at : i <= j

\* txt.rfind("}"): the last index of the token, 0 when there is none.
rfind(txt, tok) ==
    LET at == {i \in 1..Len(txt) : txt[i] = tok}
    IN  IF at = {} THEN 0 ELSE CHOOSE i \in at : \A j \in at : i >= j

\* json.loads of a span: "{}" and "{" members "}" parse, nothing else does.
json_loads(span) ==
    IF span = <<Open, Close>> THEN [ok |-> TRUE, obj |-> EmptyObj]
    ELSE IF Len(span) = 3 /\ span[1] = Open /\ span[3] = Close
            /\ span[2].t = "members"
         THEN [ok |-> TRUE, obj |-> span[2].v]
         ELSE [ok |-> FALSE, obj |-> EmptyObj]

\* app.py:150-153, 214-217.  The span from the first "{" to the last "}",
\* parsed; ok is FALSE when the call raised, there is no span, or the span does
\* not parse.
parse_reply(reply) ==
    IF reply.raised THEN [ok |-> FALSE, obj |-> EmptyObj]
    ELSE LET s == find(reply.txt, Open)
             e == rfind(reply.txt, Close)
         IN  IF s # 0 /\ e # 0 /\ e > s
             THEN json_loads(SubSeq(reply.txt, s, e))
             ELSE [ok |-> FALSE, obj |-> EmptyObj]

\* app.py:117-120.  re.findall: the addresses of the text in order of
\* appearance.  A text is a sequence of characters and words.
IsEmail(w) == w \in Emails
extract_contacts(cv_text) == [emails |-> SelectSeq(cv_text, IsEmail)]

\* The candidate record with the hint address placed before the judge's.
parse_cv_hint_first(cv_text, reply) ==
    LET contacts == extract_contacts(cv_text)
        r == parse_reply(reply)
        data == IF r.ok THEN r.obj ELSE EmptyObj
    IN  IF contacts.emails # <<>> THEN [data EXCEPT !.email = contacts.emails[1]]
        ELSE data

\* app.py:132-165.  The candidate record: the parsed object, its address
\* taken from the first hint when it has none (app.py:156), or the record
\* built from the hints when the call or the parse fails (app.py:161-165).
parse_cv(cv_text, reply) ==
    LET contacts == extract_contacts(cv_text)
        r == parse_reply(reply)
    IN  IF r.ok
        THEN IF r.obj.email = "" /\ contacts.emails # <<>>
             THEN [r.obj EXCEPT !.email = contacts.emails[1]]
             ELSE r.obj
        ELSE [EmptyObj EXCEPT !.email = IF contacts.emails # <<>>
                                        THEN contacts.emails[1] ELSE ""]

\* app.py:190-220.  The score record: the parsed object as it is, or
\* {"score": 0.0, "matching_points": []} when the call or the parse fails.
score_candidate(reply) ==
    LET r == parse_reply(reply)
    IN  IF r.ok THEN [obj |-> r.obj, failed |-> FALSE]
        ELSE [obj |-> [EmptyObj EXCEPT !.score = Num(0)], failed |-> TRUE]

\* app.py:236.  {**cv_data, **score_data}: the keys of both, the score
\* record's value where both hold a key.  `doc` and `mtime` name the document
\* the result is of; `failed` records that score_candidate returned its
\* default, `empty` that the result is the empty-text one.
merge(d, cv_data, score_data) ==
    [doc |-> d,
     mtime |-> disk[d].mtime,
     error |-> cv_data.error \/ score_data.obj.error,
     score |-> IF score_data.obj.score.kind # "missing"
               THEN score_data.obj.score ELSE cv_data.score,
     points |-> score_data.obj.points,
     failed |-> score_data.failed,
     empty |-> FALSE]

\* app.py:228.  {"error": "Empty text"}
empty_text_result(d) ==
    [doc |-> d, mtime |-> disk[d].mtime, error |-> TRUE, score |-> NoScore,
     points |-> <<>>, failed |-> FALSE, empty |-> TRUE]

NoResult ==
    [doc |-> 0, mtime |-> 0, error |-> FALSE, score |-> NoScore,
     points |-> <<>>, failed |-> FALSE, empty |-> FALSE]

\* ---------------------------------------------------------------- the run
NoTask == [st |-> "none", res |-> NoResult]

\* The ascending list of the members of a set of documents.
RECURSIVE ListOf(_)
ListOf(S) ==
    IF S = {} THEN <<>>
    ELSE LET m == CHOOSE x \in S : \A y \in S : x <= y
         IN  <<m>> \o ListOf(S \ {m})

Range(q) == {q[i] : i \in 1..Len(q)}

\* app.py:260.  The entries of CV_FOLDER with a recognized suffix.
glob_files(dsk) ==
    ListOf({d \in Docs : dsk[d].present /\ SuffixOf(d) \in Recognized})

\* app.py:252-256.  f.save(save_path): the file is (re)written, its mtime moves.
save(dsk, d, body) ==
    [dsk EXCEPT ![d] = [present |-> TRUE, body |-> body, mtime |-> dsk[d].mtime + 1]]

RECURSIVE save_all(_, _, _)
save_all(dsk, U, up) ==
    IF U = {} THEN dsk
    ELSE LET d == CHOOSE x \in U : TRUE
         IN  save_all(save(dsk, d, up[d]), U \ {d}, up)

\* app.py:249-263.  The POST request up to the submission of the tasks: the
\* uploads are saved, the folder is scanned, one task per file is submitted.
index_post ==
    /\ pc = "idle"
    /\ \E U \in SUBSET Docs :
         /\ \A d \in U : disk[d].mtime < MaxTime
         /\ \E up \in [U -> UploadBodies] :
              LET dsk == save_all(disk, U, up)
                  files == glob_files(dsk)
              IN  /\ disk' = dsk
                  /\ scan' = files
                  /\ found' = {d \in Range(files) : strip(dsk[d].body) # <<>>}
                  /\ task' = [d \in Docs |->
                                IF d \in Range(files)
                                THEN [NoTask EXCEPT !.st = "queued"]
                                ELSE NoTask]
    /\ results' = <<>>
    /\ pc' = "pool"
    /\ UNCHANGED <<faults, cache, latest_results, csv, calls, pdf, cvcall, other>>

Running == {d \in Docs : task[d].st \in {"running", "extracted"}}

\* A pool that starts a thread for every submitted task.
process_one_start_unbounded(d) ==
    /\ pc = "pool"
    /\ task[d].st = "queued"
    /\ \A e \in Docs : task[e].st = "queued" => d <= e
    /\ task' = [task EXCEPT ![d].st = "running"]
    /\ UNCHANGED <<faults, disk, cache, pc, scan, results, latest_results, csv, calls, pdf, cvcall, found, other>>

\* app.py:262-263.  A worker thread of the pool takes the next submitted task.
\* The pool has MAX_WORKERS threads and hands the tasks out in submission order.
process_one_start(d) ==
    /\ pc = "pool"
    /\ task[d].st = "queued"
    /\ \A e \in Docs : task[e].st = "queued" => d <= e
    /\ Cardinality(Running) < MAX_WORKERS
    /\ task' = [task EXCEPT ![d].st = "running"]
    /\ UNCHANGED <<faults, disk, cache, pc, scan, results, latest_results, csv, calls, pdf, cvcall, found, other>>

\* The outcomes of extract_text in which a file operation failed.
IsFault(how) == how \in {"failed", "truncated", "unreadable"}

\* At most MaxFaults file operations fail in one behaviour.
Charge(failed) ==
    IF failed THEN faults < MaxFaults /\ faults' = faults + 1
    ELSE faults' = faults

\* app.py:226-228.  extract_text, then the empty-text return.
process_one_extract(d) ==
    /\ pc = "pool"
    /\ task[d].st = "running"
    /\ \E o \in extract_text(d) :
         /\ Charge(IsFault(o.how))
         /\ cache' = o.cache
         /\ task' = [task EXCEPT ![d] =
                       IF o.raised THEN [st |-> "raised", res |-> NoResult]
                       ELSE IF strip(o.text) = <<>>
                       THEN [st |-> "done", res |-> empty_text_result(d)]
                       ELSE [st |-> "extracted", res |-> NoResult]]
    /\ UNCHANGED <<disk, pc, scan, results, latest_results, csv, calls, pdf, cvcall, found, other>>

\* app.py:232-235.  file_path.unlink(): the file is removed, or the failure
\* is ignored.
unlink(d) ==
    {[failed |-> FALSE, disk |-> [disk EXCEPT ![d].present = FALSE, ![d].body = <<>>]],
     [failed |-> TRUE, disk |-> disk]}

\* app.py:229-236.  parse_cv, score_candidate, unlink, and the merged result.
\* The task keeps no text: the hints of parse_cv are taken from the file's
\* body, which holds the addresses of the text extracted from it.
process_one_score(d) ==
    /\ pc = "pool"
    /\ task[d].st = "extracted"
    /\ \E cv \in Replies(CvObjs), sc \in Replies(ScoreObjs) :
         task' = [task EXCEPT ![d].st = "done",
                              ![d].res = merge(d, parse_cv(disk[d].body, cv), score_candidate(sc))]
    /\ \E u \in unlink(d) :
         /\ Charge(u.failed)
         /\ disk' = u.disk
    /\ UNCHANGED <<cache, pc, scan, results, latest_results, csv, calls, pdf, cvcall, found, other>>

\* app.py:264-268.  as_completed yields a finished future; its result is
\* appended, or its exception printed.
index_collect(d) ==
    /\ pc = "pool"
    /\ task[d].st \in {"done", "raised"}
    /\ results' = IF task[d].st = "done" THEN Append(results, task[d].res) ELSE results
    /\ task' = [task EXCEPT ![d].st = "collected"]
    /\ UNCHANGED <<faults, disk, cache, pc, scan, latest_results, csv, calls, pdf, cvcall, found, other>>

\* list.sort(key=..., reverse=True) is stable: x goes behind every element
\* whose key is not smaller.
insert_desc(sorted, x) ==
    LET k == Cardinality({i \in 1..Len(sorted) : sorted[i].score.val >= x.score.val})
    IN  SubSeq(sorted, 1, k) \o <<x>> \o SubSeq(sorted, k + 1, Len(sorted))

\* The list left in the order of collection.
sort_skipped(q) == q

RECURSIVE sort_desc(_)
sort_desc(q) ==
    IF q = <<>> THEN <<>>
    ELSE insert_desc(sort_desc(SubSeq(q, 1, Len(q) - 1)), q[Len(q)])

\* x["score"] raises KeyError when the key is absent; comparing a number with
\* a value that is not a number raises TypeError.
sort_raises(q) ==
    \/ \E i \in 1..Len(q) : q[i].score.kind = "missing"
    \/ \E i, j \in 1..Len(q) : q[i].score.kind # q[j].score.kind

\* Every result kept.
without_error_skipped(q) == q

\* app.py:270.  [r for r in results if "error" not in r]
without_error(q) == SelectSeq(q, LAMBDA r : ~r.error)

\* A request that filters and sorts without waiting for its tasks.
index_finish_early ==
    /\ pc = "pool"
    /\ LET kept == without_error(results)
       IN  IF sort_raises(kept)
           THEN /\ pc' = "raised"
                /\ results' = kept
                /\ UNCHANGED latest_results
           ELSE /\ pc' = "returned"
                /\ results' = sort_desc(kept)
                /\ latest_results' = sort_desc(kept)
    /\ UNCHANGED <<faults, disk, cache, scan, task, csv, calls, pdf, cvcall, found, other>>

\* app.py:270-276.  After the pool is joined: filter, sort, store, respond;
\* an exception of the sort ends the request without a result.
index_finish ==
    /\ pc = "pool"
    /\ \A d \in Docs : task[d].st \in {"none", "collected"}
    /\ LET kept == without_error(results)
       IN  IF sort_raises(kept)
           THEN /\ pc' = "raised"
                /\ results' = kept
                /\ UNCHANGED latest_results
           ELSE /\ pc' = "returned"
                /\ results' = sort_desc(kept)
                /\ latest_results' = sort_desc(kept)
    /\ UNCHANGED <<faults, disk, cache, scan, task, csv, calls, pdf, cvcall, found, other>>

\* app.py:290-297.  The row written for a result.
csv_row(r) == [doc |-> r.doc, mtime |-> r.mtime, score |-> r.score, points |-> r.points]

\* app.py:279-299.  With no results the answer is 400 and results.csv is not
\* touched; else a row is written for every result.  latest_results changes
\* only in index_finish, so a download during the pool is one before it.
download_csv ==
    /\ pc # "pool"
    /\ csv' = IF latest_results = <<>>
              THEN csv
              ELSE [rows |-> [i \in 1..Len(latest_results) |-> csv_row(latest_results[i])]]
    /\ UNCHANGED <<faults, disk, cache, pc, scan, task, results, latest_results, calls, pdf, cvcall, found, other>>

\* ------------------------------------------------------- specification
NoCall ==
    [n |-> 0, cold |-> <<>>, stored |-> FALSE, last |-> <<>>, how |-> "none", at |-> 0,
     before |-> [how |-> "none", text |-> <<>>]]
NoEntry == [exists |-> FALSE, data |-> <<>>, at |-> 0]
\* No second request has been made.
NoOther == [pc |-> "idle", st |-> [d \in Docs |-> "none"]]
\* No call of parse_cv is under way.
NoCvCall == [cv_text |-> <<>>, called |-> FALSE, reply |-> [raised |-> TRUE, txt |-> <<>>],
             data |-> EmptyObj]
\* No call of extract_text_pdf is under way.
NoPdf ==
    [doc |-> [n |-> 0, layer |-> {}], called |-> FALSE,
     f |-> [read |-> 0, range |-> FALSE, whole |-> FALSE, ocr |-> {}],
     out |-> [requests |-> <<>>, text_parts |-> <<>>, text |-> <<>>]]

\* The module's import: empty folders, latest_results = [].
Init ==
    /\ disk = [d \in Docs |-> [present |-> FALSE, body |-> <<>>, mtime |-> 0]]
    /\ cache = [k \in Docs \X Times |-> NoEntry]
    /\ faults = 0
    /\ pc = "idle"
    /\ scan = <<>>
    /\ task = [d \in Docs |-> NoTask]
    /\ results = <<>>
    /\ latest_results = <<>>
    /\ csv = [rows |-> <<>>]
    /\ calls = [d \in Docs |-> NoCall]
    /\ pdf = NoPdf
    /\ cvcall = NoCvCall
    /\ found = {}
    /\ other = NoOther

Next ==
    \/ index_post
    \/ \E d \in Docs : process_one_start(d)
    \/ \E d \in Docs : process_one_extract(d)
    \/ \E d \in Docs : process_one_score(d)
    \/ \E d \in Docs : index_collect(d)
    \/ index_finish
    \/ download_csv

Spec == Init /\ [][Next]_vars

\* ---------------------------------------- extract_text on a changing folder
\* extract_text reads one path and the cache entries of that path: the folder
\* holds one document, of any suffix and body, and the cache is empty.
InitExtract ==
    /\ \E d0 \in Docs, b \in Bodies :
         disk = [d \in Docs |->
                   IF d = d0 THEN [present |-> TRUE, body |-> b, mtime |-> 0]
                   ELSE [present |-> FALSE, body |-> <<>>, mtime |-> 0]]
    /\ cache = [k \in Docs \X Times |-> NoEntry]
    /\ faults = 0
    /\ pc = "idle"
    /\ scan = <<>>
    /\ task = [d \in Docs |-> NoTask]
    /\ results = <<>>
    /\ latest_results = <<>>
    /\ csv = [rows |-> <<>>]
    /\ calls = [d \in Docs |-> NoCall]
    /\ pdf = NoPdf
    /\ cvcall = NoCvCall
    /\ found = {}
    /\ other = NoOther

\* app.py:252-256.  The document is saved again: a new mtime.
save_file(d) ==
    /\ disk[d].present
    /\ disk[d].mtime < MaxTime
    /\ \E b \in Bodies : disk' = save(disk, d, b)
    /\ calls' = [calls EXCEPT ![d] = NoCall]
    /\ UNCHANGED <<cache, faults, pc, scan, task, results, latest_results, csv, pdf, cvcall, found, other>>

\* What is known of the calls on d at its current mtime, after one more
\* ended as o: how many returned (counted to 2), the text of the call that
\* found no entry and stored one, the text and origin of the last call and of
\* the call before it.  Of a call that raised only the origin is kept.
record_call(c, o) ==
    IF o.raised
    THEN [c EXCEPT !.how = o.how, !.last = <<>>,
                   !.before = [how |-> c.how, text |-> c.last]]
    ELSE [n |-> Min(c.n + 1, 2),
          cold |-> IF o.how = "stored" THEN o.text ELSE c.cold,
          stored |-> c.stored \/ o.how = "stored",
          last |-> o.text,
          how |-> o.how,
          at |-> o.at,
          before |-> [how |-> c.how, text |-> c.last]]

\* app.py:96-115.  One call of extract_text(d).
extract_call(d) ==
    /\ \E o \in extract_text(d) :
         /\ Charge(IsFault(o.how))
         /\ cache' = o.cache
         /\ calls' = [calls EXCEPT ![d] = record_call(@, o)]
    /\ UNCHANGED <<disk, pc, scan, task, results, latest_results, csv, pdf, cvcall, found, other>>

NextExtract ==
    \/ \E d \in Docs : save_file(d)
    \/ \E d \in Docs : extract_call(d)

SpecExtract == InitExtract /\ [][NextExtract]_vars

\* ------------------------------------------- extract_text_pdf page by page
MaxPages == 3

\* The pages of a document of n pages, numbered as enumerate numbers them.
Pages(n) == 0..(n - 1)

\* A PDF document: its pages, and the pages that carry a text layer (the
\* pages whose get_text is not blank).
PdfDocs ==
    UNION {{[n |-> n, layer |-> L] : L \in SUBSET Pages(n)} : n \in 1..MaxPages}

\* What can fail in one call: fitz raises after `read` pages (read = n: the
\* document parses), convert_from_path raises on the page range or on the
\* whole document, image_to_string raises on the pages of `ocr`.
PdfFaults(doc) ==
    [read : 0..doc.n, range : BOOLEAN, whole : BOOLEAN, ocr : SUBSET Pages(doc.n)]

\* The pages a..b in ascending order.
PageList(a, b) == [i \in 1..(b - a + 1) |-> a + i - 1]

\* app.py:62-68,76.  The images convert_from_path returns, as the 0-based
\* pages they show; first_page and last_page are 1-based.
convert_from_path(first_page, last_page) == PageList(first_page - 1, last_page - 1)

LayerPart(i) == [src |-> "layer", page |-> i]
OcrPart(i) == [src |-> "ocr", page |-> i]

\* app.py:54-59.  The text parts and pages_without_text after `read` pages.
RECURSIVE read_pages(_, _)
read_pages(doc, read) ==
    IF read = 0 THEN [text_parts |-> <<>>, pages_without_text |-> <<>>]
    ELSE LET r == read_pages(doc, read - 1)
             i == read - 1
         IN  IF i \in doc.layer
             THEN [r EXCEPT !.text_parts = Append(@, LayerPart(i))]
             ELSE [r EXCEPT !.pages_without_text = Append(@, i)]

min(q) == CHOOSE x \in Range(q) : \A y \in Range(q) : x <= y
max(q) == CHOOSE x \in Range(q) : \A y \in Range(q) : x >= y

\* app.py:69-73.  Each image in its own try: a failing page is skipped.
RECURSIVE ocr_each(_, _)
ocr_each(images, raising) ==
    IF images = <<>> THEN <<>>
    ELSE (IF Head(images) \in raising THEN <<>> ELSE <<OcrPart(Head(images))>>)
         \o ocr_each(Tail(images), raising)

\* app.py:77-80.  One try around the loop: the first failing page ends it.
RECURSIVE ocr_until(_, _)
ocr_until(images, raising) ==
    IF images = <<>> \/ Head(images) \in raising THEN <<>>
    ELSE <<OcrPart(Head(images))>> \o ocr_until(Tail(images), raising)

\* "\n".join(text_parts): every part is the text "a".
RECURSIVE join(_)
join(parts) ==
    IF parts = <<>> THEN <<>>
    ELSE IF Len(parts) = 1 THEN <<"a">>
    ELSE <<"a", "LF">> \o join(Tail(parts))

\* app.py:49-81.  extract_text_pdf on doc under the failures f: the requests
\* made to convert_from_path in order, the text parts, the returned text.
pdf_pages(doc, f) ==
    LET r == read_pages(doc, f.read)
        parsed == f.read = doc.n
        B == r.pages_without_text
        ranged == parsed /\ B # <<>>
        req == [kind |-> "range", first_page |-> min(B) + 1, last_page |-> max(B) + 1,
                raised |-> f.range]
        fell == ~parsed \/ (ranged /\ f.range)
        all == [kind |-> "whole", first_page |-> 1, last_page |-> doc.n,
                raised |-> f.whole]
        parts == r.text_parts
                 \o (IF ranged /\ ~f.range
                     THEN ocr_each(convert_from_path(req.first_page, req.last_page), f.ocr)
                     ELSE <<>>)
                 \o (IF fell /\ ~f.whole
                     THEN ocr_until(convert_from_path(1, doc.n), f.ocr)
                     ELSE <<>>)
    IN  [requests |-> (IF ranged THEN <<req>> ELSE <<>>) \o (IF fell THEN <<all>> ELSE <<>>),
         text_parts |-> parts,
         text |-> extract_text_pdf(join(parts))]

\* app.py:49-81.  One call of extract_text_pdf on the document.
extract_text_pdf_call ==
    /\ ~pdf.called
    /\ pdf.doc.n > 0
    /\ \E f \in PdfFaults(pdf.doc) :
         pdf' = [pdf EXCEPT !.called = TRUE, !.f = f, !.out = pdf_pages(pdf.doc, f)]
    /\ UNCHANGED <<disk, cache, faults, pc, scan, task, results, latest_results, csv, calls, cvcall, found, other>>

\* A PDF document of any page count and text layers, before the call.
InitPdf ==
    /\ disk = [d \in Docs |-> [present |-> FALSE, body |-> <<>>, mtime |-> 0]]
    /\ cache = [k \in Docs \X Times |-> NoEntry]
    /\ faults = 0
    /\ pc = "idle"
    /\ scan = <<>>
    /\ task = [d \in Docs |-> NoTask]
    /\ results = <<>>
    /\ latest_results = <<>>
    /\ csv = [rows |-> <<>>]
    /\ calls = [d \in Docs |-> NoCall]
    /\ \E doc \in PdfDocs : pdf = [NoPdf EXCEPT !.doc = doc]
    /\ cvcall = NoCvCall
    /\ found = {}
    /\ other = NoOther

NextPdf == extract_text_pdf_call

SpecPdf == InitPdf /\ [][NextPdf]_vars

\* --------------------------------------------------- parse_cv on one text
MaxWords == 3

\* The words of a CV text: a plain word, or one of two addresses.
CvWords == {"a", "h1@x", "h2@x"}
RECURSIVE TextsUpTo(_)
TextsUpTo(n) ==
    IF n = 0 THEN {<<>>}
    ELSE TextsUpTo(n - 1) \cup {Append(t, w) : t \in TextsUpTo(n - 1), w \in CvWords}
CvTexts == TextsUpTo(MaxWords)

\* app.py:132-165.  One call of parse_cv on the text, the judge answering
\* with any reply.
parse_cv_call ==
    /\ ~cvcall.called
    /\ \E reply \in Replies(MailObjs) :
         cvcall' = [cvcall EXCEPT !.called = TRUE, !.reply = reply,
                                  !.data = parse_cv(cvcall.cv_text, reply)]
    /\ UNCHANGED <<disk, cache, faults, pc, scan, task, results, latest_results, csv,
                   calls, pdf, found, other>>

\* A CV text of any words, before the call.
InitCv ==
    /\ disk = [d \in Docs |-> [present |-> FALSE, body |-> <<>>, mtime |-> 0]]
    /\ cache = [k \in Docs \X Times |-> NoEntry]
    /\ faults = 0
    /\ pc = "idle"
    /\ scan = <<>>
    /\ task = [d \in Docs |-> NoTask]
    /\ results = <<>>
    /\ latest_results = <<>>
    /\ csv = [rows |-> <<>>]
    /\ calls = [d \in Docs |-> NoCall]
    /\ pdf = NoPdf
    /\ \E t \in CvTexts : cvcall = [NoCvCall EXCEPT !.cv_text = t]
    /\ found = {}
    /\ other = NoOther

NextCv == parse_cv_call

SpecCv == InitCv /\ [][NextCv]_vars

\* -------------------------------------------------- a run under fair steps
\* The steps of the request and of its pool.
RunStep ==
    \/ index_post
    \/ \E d \in Docs : process_one_start(d)
    \/ \E d \in Docs : process_one_extract(d)
    \/ \E d \in Docs : process_one_score(d)
    \/ \E d \in Docs : index_collect(d)
    \/ index_finish

\* app.py:262-271.  A pool thread that can take a task takes it, a call that
\* is under way returns or fails, and the request thread goes on when it can;
\* nothing is assumed of the download requests.
SpecFair == Spec /\ WF_vars(RunStep)

\* The states a task goes through: submitted (queued), executing, then the
\* empty-text result or an exception, or extracted and then the merged result
\* of the judge's two calls; a finished task is collected, and stays so.
TaskMoves ==
    {<<"none", "queued">>, <<"queued", "running">>,
     <<"running", "done">>, <<"running", "raised">>, <<"running", "extracted">>,
     <<"extracted", "done">>, <<"done", "collected">>, <<"raised", "collected">>}

\* ------------------------------------------------ two requests that overlap
\* app.py:301-302 serves every request on a thread of its own; the requests
\* share CV_FOLDER and CACHE_DIR.  Of the second request the model keeps what
\* acts on the two folders: its uploads, its scan, and for each of its tasks
\* the call of extract_text and the unlink.
OtherRunning == {d \in Docs : other.st[d] = "extracted"}

\* app.py:249-263.  The second request saves its uploads, scans the folder and
\* submits a task for every file it finds.
other_post ==
    /\ other.pc = "idle"
    /\ \E U \in SUBSET Docs :
         /\ \A d \in U : disk[d].mtime < MaxTime
         /\ \E up \in [U -> UploadBodies] :
              LET dsk == save_all(disk, U, up)
              IN  /\ disk' = dsk
                  /\ other' = [pc |-> "pool",
                               st |-> [d \in Docs |->
                                         IF d \in Range(glob_files(dsk))
                                         THEN "queued" ELSE "none"]]
    /\ UNCHANGED <<cache, faults, pc, scan, task, results, latest_results, csv, calls,
                   pdf, cvcall, found>>

\* app.py:226-228.  A pool thread of the second request takes its next task
\* and calls extract_text; the task ends there when the call raises or the
\* text is empty.
other_extract(d) ==
    /\ other.pc = "pool"
    /\ other.st[d] = "queued"
    /\ \A e \in Docs : other.st[e] = "queued" => d <= e
    /\ Cardinality(OtherRunning) < MAX_WORKERS
    /\ \E o \in extract_text(d) :
         /\ Charge(IsFault(o.how))
         /\ cache' = o.cache
         /\ other' = [other EXCEPT !.st[d] = IF o.raised \/ strip(o.text) = <<>>
                                             THEN "done" ELSE "extracted"]
    /\ UNCHANGED <<disk, pc, scan, task, results, latest_results, csv, calls,
                   pdf, cvcall, found>>

\* app.py:229-236.  The judge's two calls of the task touch no folder; then
\* the file is unlinked and the task returns.
other_score(d) ==
    /\ other.pc = "pool"
    /\ other.st[d] = "extracted"
    /\ \E u \in unlink(d) :
         /\ Charge(u.failed)
         /\ disk' = u.disk
    /\ other' = [other EXCEPT !.st[d] = "done"]
    /\ UNCHANGED <<cache, pc, scan, task, results, latest_results, csv, calls,
                   pdf, cvcall, found>>

NextTwo ==
    \/ RunStep
    \/ other_post
    \/ \E d \in Docs : other_extract(d)
    \/ \E d \in Docs : other_score(d)

SpecTwo == Init /\ [][NextTwo]_vars

\* ------------------------------------------------------------- properties
Over == pc \in {"returned", "raised"}
FinalDocs == {results[i].doc : i \in 1..Len(results)}
\* The documents of the run whose task returned a result for a non-empty text.
Scored == {d \in Docs : task[d].st = "collected" /\ task[d].res.doc = d
                        /\ ~task[d].res.empty}
\* The documents of the run whose task returned the empty-text result.
EmptyText == {d \in Docs : task[d].st = "collected" /\ task[d].res.empty}
Geq(a, b) == a.kind = b.kind /\ a.val >= b.val

\* C1: after a run has returned, and even when no file operation failed, no
\* document the run scanned (recognized extension, in the folder at the scan)
\* is still in the folder, whether it was excluded for empty text or scored.
C1_CleanupAfterRun ==
    (pc = "returned" /\ faults = 0) => \A d \in Range(scan) : ~disk[d].present

\* C2: when the scoring call of one document of a run failed, every other
\* document of the run with non-empty text is in the final sorted output of the
\* run, with its own score (stated for the runs in which no file operation
\* failed).
C2_FaultIsolation ==
    (Over /\ faults = 0) =>
      \A d \in Scored : task[d].res.failed =>
        \A e \in Scored \ {d} :
          /\ pc = "returned"
          /\ \E i \in 1..Len(results) : results[i] = task[e].res

\* C3: whatever the tasks of a run did and whatever the judge replied, the run
\* completes and returns a ranked sequence: it never ends in an exception
\* (stated for the runs in which no file operation failed).
C3_RunNeverAborts == faults = 0 => pc # "raised"

\* C4: the sequence a run returns is sorted by score, descending: each result's
\* score is at least the next one's.
C4_SortedDescending ==
    pc = "returned" =>
      /\ \A i \in 1..(Len(results) - 1) : Geq(results[i].score, results[i + 1].score)
      /\ latest_results = results

\* C4 witness: a run returned two results with different scores, the higher
\* one from the document discovered later.
C4_Witness ==
    /\ pc = "returned"
    /\ Len(results) = 2
    /\ results[1].score.val > results[2].score.val
    /\ results[1].doc > results[2].doc

\* C5: results with equal scores are in the returned sequence in the order
\* their documents were discovered (the order of the scanned list); stated for
\* the runs in which no file operation failed.
C5_TiesInDiscoveryOrder ==
    (pc = "returned" /\ faults = 0) =>
      \A i, j \in 1..Len(results) :
        (i < j /\ results[i].score = results[j].score)
          => results[i].doc < results[j].doc

\* C6: a document whose extracted text was empty after strip is in no returned
\* sequence, in no stored result and in no exported row, and a run in which
\* every task returned the empty-text result does not end in an exception.
C6_EmptyTextExcluded ==
    /\ \A d \in EmptyText :
         /\ pc = "returned" => d \notin FinalDocs
         /\ \A i \in 1..Len(latest_results) : latest_results[i].doc # d
         /\ \A i \in 1..Len(csv.rows) : csv.rows[i].doc # d
    /\ (Scored = {} /\ \A d \in Range(scan) : task[d].st = "collected")
         => pc # "raised"

\* C6 witness: a run with an empty-text document returned a result of another
\* document, and the export wrote it.
C6_Witness ==
    /\ pc = "returned"
    /\ EmptyText # {}
    /\ results # <<>>
    /\ csv.rows # <<>>
    /\ Len(csv.rows) = Len(results)

\* C7: every result of a returned sequence carries a numeric score (stated for
\* the runs in which no file operation failed).
C7_NumericScores ==
    (pc = "returned" /\ faults = 0) => \A i \in 1..Len(results) : results[i].score.kind = "num"

\* C8: a document with non-empty text whose scoring call failed is in the
\* returned sequence with score 0 and no matching points (stated for the runs
\* in which no file operation failed).
C8_ScoringFailureDegrades ==
    (pc = "returned" /\ faults = 0) =>
      \A d \in Scored : task[d].res.failed =>
        \E i \in 1..Len(results) :
          /\ results[i].doc = d
          /\ results[i].score = Num(0)
          /\ results[i].points = <<>>

\* C9: while a document's path and mtime do not change, the call of
\* extract_text that found no cache entry and stored one, and every later call
\* that reads that entry, return the same text.
C9_IdempotentExtraction ==
    \A d \in Docs :
      (calls[d].stored /\ calls[d].how = "hit") => calls[d].last = calls[d].cold

\* C10: a text that extract_text returns from the cache was extracted from the
\* file at its present mtime; the first call after the mtime changed finds no
\* entry and runs the extractor, and a text it stores is stored under the key
\* of the present mtime.
C10_MtimeInvalidates ==
    \A d \in Docs :
      /\ (calls[d].n >= 1 /\ disk[d].present) => calls[d].at = disk[d].mtime
      /\ calls[d].n = 1 => calls[d].how # "hit"
      /\ calls[d].how = "stored" =>
           /\ cache[<<d, disk[d].mtime>>].exists
           /\ cache[<<d, disk[d].mtime>>].data = write_text(calls[d].last)

\* C10 witness: a document was extracted and cached at mtime 0, then saved
\* again with another body, and extract_text stored the new text under the new
\* key while the old entry is still in the cache.
C10_Witness ==
    \E d \in Docs :
      /\ disk[d].present
      /\ disk[d].mtime = 1
      /\ calls[d].how = "stored"
      /\ cache[<<d, 0>>].exists
      /\ cache[<<d, 0>>].data # cache[<<d, 1>>].data

\* The pages of the document without a text layer.
NoLayer == Pages(pdf.doc.n) \ pdf.doc.layer
\* The call is over and fitz read the whole document.
Parsed == pdf.called /\ pdf.f.read = pdf.doc.n
\* The pages convert_from_path was asked for, over all requests of the call.
Rasterized ==
    UNION {Range(convert_from_path(pdf.out.requests[i].first_page,
                                   pdf.out.requests[i].last_page))
           : i \in 1..Len(pdf.out.requests)}

\* C11: for a document that parses, rasterization is requested for exactly
\* the pages from the lowest to the highest page without a text layer, and
\* for no page at all when every page has a text layer.
C11_OcrRangeMinimal ==
    Parsed =>
        IF NoLayer = {} THEN pdf.out.requests = <<>>
        ELSE Rasterized = {p \in Pages(pdf.doc.n) :
                             /\ \E b \in NoLayer : b <= p
                             /\ \E b \in NoLayer : p <= b}

\* C14: the whole document is rasterized only when it does not parse: after
\* a call on a document that parsed, no request was for the whole document.
C14_WholeOnlyOnParseFailure ==
    Parsed => \A i \in 1..Len(pdf.out.requests) : pdf.out.requests[i].kind # "whole"

\* C15: on the page-range path and on the whole-document path alike, the
\* text of every rasterized page on which recognition did not fail is part
\* of the returned text, whichever other pages failed.
C15_OcrFailureIsolated ==
    pdf.called =>
        \A i \in 1..Len(pdf.out.requests) :
            LET r == pdf.out.requests[i]
            IN  ~r.raised =>
                    \A p \in Range(convert_from_path(r.first_page, r.last_page)) :
                        p \notin pdf.f.ocr => OcrPart(p) \in Range(pdf.out.text_parts)

\* The address the judge gave: that of the object in its reply, "" when the
\* call raised or the reply holds no object or the object no address.
JudgeEmail ==
    IF cvcall.reply.raised THEN ""
    ELSE LET at == {i \in 1..Len(cvcall.reply.txt) : cvcall.reply.txt[i].t = "members"}
         IN  IF at = {} THEN "" ELSE cvcall.reply.txt[CHOOSE i \in at : TRUE].v.email
\* The positions of the text that hold an address.
HintAt == {i \in 1..Len(cvcall.cv_text) : cvcall.cv_text[i] \in Emails}

\* C12: in the record of parse_cv an address given by the judge is the
\* record's address even when it is none of the text's; when the judge gave
\* none, or the call failed, the record's address is the first address of the
\* text in order of appearance, when the text holds one.
C12_HintNonOverride ==
    cvcall.called =>
        /\ JudgeEmail # "" => cvcall.data.email = JudgeEmail
        /\ (JudgeEmail = "" /\ HintAt # {}) =>
               cvcall.data.email = cvcall.cv_text[CHOOSE i \in HintAt : \A j \in HintAt : i <= j]

\* The judge gave an address that differs from the two the text holds.
C12_Witness ==
    /\ cvcall.called
    /\ JudgeEmail # ""
    /\ Cardinality({cvcall.cv_text[i] : i \in HintAt}) = 2
    /\ \A i \in HintAt : cvcall.cv_text[i] # JudgeEmail
    /\ cvcall.data.email = JudgeEmail

\* C13: at every moment of a run the number of documents whose task is
\* executing is at most min(8, CPU count); a task beyond that ceiling waits
\* in the queue until a running task has finished.
C13_BoundedConcurrency ==
    Cardinality(Running) <= (IF CpuCount < 8 THEN CpuCount ELSE 8)

\* The pool is full and a submitted task waits.
C13_Witness ==
    /\ pc = "pool"
    /\ Cardinality(Running) = (IF CpuCount < 8 THEN CpuCount ELSE 8)
    /\ \E d \in Docs : task[d].st = "queued"

\* C16: a call of extract_text whose cache write failed returned the text it
\* had just extracted, and the call that follows it at the same path and
\* mtime finds no entry: it extracts again and returns that text as well.
C16_CacheWriteFailureHarmless ==
    \A d \in Docs :
        /\ calls[d].how \in {"failed", "truncated"} =>
               \E x \in extract_by_suffix(d) : ~x.raised /\ calls[d].last = x.text
        /\ (calls[d].before.how \in {"failed", "truncated"} /\ calls[d].how # "unreadable") =>
               /\ calls[d].how # "hit"
               /\ calls[d].last = calls[d].before.text

\* C17: extract_text_plain never raises: no call of extract_text ends with an
\* exception of the plain-text reader.
C17_PlainNeverRaises ==
    \A d \in Docs : SuffixOf(d) = ".txt" => calls[d].how # "unreadable"

\* C18: every run ends with every document it discovered collected: each
\* task moves only along submitted, executing, then excluded (empty text or
\* an exception) or extracted and scored; it is collected exactly once, its
\* result added to the results at that step if it returned one; the request
\* leaves the pool only when every task is collected; and a run in its pool
\* always comes to its end.
C18_RunTerminates ==
    /\ [][/\ \A d \in Docs :
               /\ task'[d].st # task[d].st => <<task[d].st, task'[d].st>> \in TaskMoves
               /\ (task[d].st = "done" /\ task'[d].st = "collected") =>
                      results' = Append(results, task[d].res)
               /\ (task[d].st = "raised" /\ task'[d].st = "collected") =>
                      results' = results
               /\ (task[d].st = "running" /\ task'[d].st = "done") => task'[d].res.empty
               /\ (task[d].st = "extracted" /\ task'[d].st = "done") => ~task'[d].res.empty
          /\ (pc = "pool" /\ pc' # "pool") =>
                 \A d \in Range(scan) : task[d].st = "collected"]_vars
    /\ (pc = "pool") ~> (Over /\ \A d \in Range(scan) : task[d].st = "collected")

\* A run is over with two documents collected, one excluded for its empty
\* text and one scored.
C18_Witness ==
    /\ Over
    /\ \E d, e \in Range(scan) :
         /\ task[d].st = "collected" /\ task[d].res.empty
         /\ task[e].st = "collected" /\ ~task[e].res.empty /\ task[e].res.doc = e

\* C19: a document is left out of a run's ranking only because its text was
\* empty or its task raised: every document with non-empty text whose task
\* returned is in the returned sequence, whatever keys the judge's candidate
\* and score objects hold (stated for the runs in which no file operation
\* failed).
C19_ExcludedOnlyWhenEmptyOrRaised ==
    (pc = "returned" /\ faults = 0) =>
      /\ \A d \in Scored : d \in FinalDocs
      /\ \A d \in Range(scan) \ FinalDocs : d \in EmptyText \/ task[d].res = NoResult

\* C20: when two requests overlap on the shared folder, every document a run
\* found with text at its scan is in the sequence the run returns, whatever
\* the other request saves, extracts, caches or deletes meanwhile (stated for
\* the runs in which no file operation failed and no result holds the key
\* "error").
C20_OverlapLosesNothing ==
    (pc = "returned" /\ faults = 0 /\ \A d \in Range(scan) : ~task[d].res.error) =>
        \A d \in found : d \in FinalDocs

====
